---- MODULE Spec2Model ----
(***************************************************************************)
(* Model of the document processing pipeline of src/app.py (the CloudWatch *)
(* variant src/appcloud.py has the same control flow): one run of main()   *)
(* after "Process File" is pressed with an uploaded file.                  *)
(*                                                                         *)
(* The run is a sequential process; pc is its position in main().  Every   *)
(* remote reply and every local I/O outcome is an input chosen with \E.    *)
(***************************************************************************)
EXTENDS Integers, Sequences, FiniteSets, TLC

\* ------------------------------------------------------------------ bounds
\* Largest number of rows the tabular store holds before the run starts.
MaxPrior == 1

\* Largest number of save_data_to_excel calls in a sequence of appends.
MaxAppends == 3

\* Largest number of remote-client calls in a sequence of calls.
MaxCalls == 2

\* ------------------------------------------------------- program constants
\* main: max_attempts, the ceiling of the polling loop.
max_attempts == 12

\* -------------------------------------------------------------- data model
\* A cell absent from its record (NaN in the DataFrame, empty in the sheet).
Empty == "<empty>"

\* The extracted records the remote service may return for the job: JSON
\* objects, written as a function from the path of each leaf to its value.
RecA == (<<"total">> :> "42.5") @@ (<<"vendor">> :> "Acme")
RecB == (<<"vendor">> :> "Bolt") @@ (<<"date">> :> "2024-01-01")
Records == {RecA, RecB}

\* The column json_normalize gives the leaf at path p: the keys joined by ".".
RECURSIVE ColumnOf(_)
ColumnOf(p) == IF Len(p) = 1 THEN p[1] ELSE p[1] \o "." \o ColumnOf(Tail(p))

\* pd.json_normalize(data) for one JSON object: its single row, one cell per
\* leaf, nested keys flattened to dotted column names.
JsonNormalize(d) ==
  [c \in {ColumnOf(p) : p \in DOMAIN d} |->
     d[CHOOSE p \in DOMAIN d : ColumnOf(p) = c]]

\* The tabular store file: absent, unreadable, or a table.
NoFile == [state |-> "nofile", cols |-> {}, rows |-> <<>>]
Corrupt == [state |-> "corrupt", cols |-> {}, rows |-> <<>>]

\* new_df: the one-row frame of the record r.
NewDf(r) ==
  [state |-> "ok", cols |-> DOMAIN JsonNormalize(r), rows |-> <<JsonNormalize(r)>>]

\* A row re-indexed on the columns cs, absent cells empty.
Pad(row, cs) == [c \in cs |-> IF c \in DOMAIN row THEN row[c] ELSE Empty]

\* Variant: the combined frame keeps only the columns of the new frame.
Concat_NewColumnsOnly(t, n) ==
  LET cs == n.cols
  IN [state |-> "ok", cols |-> cs,
      rows |-> [i \in 1..Len(t.rows) |-> Pad(t.rows[i], cs)]
               \o [i \in 1..Len(n.rows) |-> Pad(n.rows[i], cs)]]

\* Variant: a new row equal to the last existing row is dropped.
Concat_Dedup(t, n) ==
  LET cs == t.cols \cup n.cols
      old == [i \in 1..Len(t.rows) |-> Pad(t.rows[i], cs)]
      new == [i \in 1..Len(n.rows) |-> Pad(n.rows[i], cs)]
  IN [state |-> "ok", cols |-> cs,
      rows |-> IF Len(old) > 0 /\ Len(new) = 1 /\ old[Len(old)] = new[1]
               THEN old ELSE old \o new]

\* pd.concat([existing_df, new_df], ignore_index=True, sort=False)
Concat(t, n) ==
  LET cs == t.cols \cup n.cols
  IN [state |-> "ok", cols |-> cs,
      rows |-> [i \in 1..Len(t.rows) |-> Pad(t.rows[i], cs)]
               \o [i \in 1..Len(n.rows) |-> Pad(n.rows[i], cs)]]

\* The store left by earlier runs: no file, or at most n rows appended one by
\* one (here rows of RecB, whose columns partly differ from RecA's).
RECURSIVE TablesUpTo(_)
TablesUpTo(n) ==
  IF n = 0 THEN {NoFile}
  ELSE LET prev == TablesUpTo(n - 1)
       IN prev \cup {IF t.state = "nofile" THEN NewDf(RecB) ELSE Concat(t, NewDf(RecB)) :
                       t \in prev}

VARIABLES
  pc,          \* position of the run in main()
  attempt,     \* main: attempt
  extracted,   \* main: extracted
  apiKey,      \* os.getenv("API_KEY") is set and non-empty
  schemaId,    \* os.getenv("SCHEMA_ID") is set and non-empty
  rec,         \* the record the remote job yields (data_response['data'])
  input,       \* input_folder/<name>: "none", "stale" or "new"
  archive,     \* archive_folder/<name>: "none", "old" or "new"
  store,       \* to_be_processed/existing_data.xlsx
  store0,      \* the store when the run started
  binarySaved, \* extracted_data/<id>.zip written by this run
  msgs,        \* the status messages shown so far (st.success/st.error/...)
  outcome,     \* how the run ended: "none" while running
  hist         \* bookkeeping about the calls made so far

vars == <<pc, attempt, extracted, apiKey, schemaId, rec, input, archive,
          store, store0, binarySaved, msgs, outcome, hist>>

\* ------------------------------------------------------------ initial state
Init ==
  /\ pc = "stage"
  /\ attempt = 0
  /\ extracted = FALSE
  /\ apiKey \in BOOLEAN
  /\ schemaId \in BOOLEAN
  /\ rec \in Records
  /\ input \in {"none", "stale"}
  /\ archive \in {"none", "old"}
  /\ store \in TablesUpTo(MaxPrior) \cup {Corrupt}
  /\ store0 = store
  /\ binarySaved = FALSE
  /\ msgs = {}
  /\ outcome = "none"
  /\ hist = [prev |-> "none",          \* the step taken last
             uploads |-> 0,            \* HTTP requests sent by upload_document
             standardizes |-> 0,       \* calls of standardize_document
             polls |-> 0,              \* calls of retrieve_extracted_data
             sleeps |-> 0,             \* waits of poll_interval
             lastReply |-> "none",     \* the reply of the current attempt
             allNotReady |-> TRUE,     \* every poll so far said "not ready"
             boundary |-> FALSE,       \* not ready max_attempts-1 times, then a record
             firstRecord |-> FALSE,    \* the last poll got a record after only "not ready"
             sawRecord |-> FALSE,      \* some poll returned a record
             saveCalled |-> FALSE,     \* save_data_to_excel was called
             saved |-> FALSE,          \* save_data_to_excel returned normally
             savedNow |-> FALSE,       \* ... in the current attempt
             archiveCalled |-> FALSE,  \* archive_file was called
             localFault |-> FALSE,     \* save, archive or read-back raised
             uploadReply |-> "none",   \* what upload_document met
             stdReply |-> "none",      \* what standardize_document met
             lastSave |-> "none",      \* how the save of this attempt went
             replaced |-> FALSE]       \* archive_file replaced an archived file

\* ------------------------------------------------------ the outer handlers
\* main, lines 421-427: the except clauses around the whole run.
OuterHandler(exc) ==
  CASE exc = "HTTPError" -> "http_error"
    [] exc = "ValueError" -> "configuration_error"
    [] OTHER -> "error"

\* The run ends through one of the outer except clauses.
Fail(exc, step) ==
  /\ pc' = "done"
  /\ msgs' = msgs \cup {OuterHandler(exc)}
  /\ outcome' = OuterHandler(exc)
  /\ hist' = [hist EXCEPT !.prev = step]

\* ------------------------------------------------------------------- stage
\* save_uploaded_file: writes the bytes to input_folder/<name> (overwrites).
SaveUploadedFile ==
  /\ pc = "stage"
  /\ \E ok \in BOOLEAN :
       IF ok
       THEN /\ input' = "new"
            /\ pc' = "upload"
            /\ hist' = [hist EXCEPT !.prev = "stage"]
            /\ UNCHANGED <<msgs, outcome>>
       ELSE /\ Fail("OSError", "stage_failed")
            /\ UNCHANGED input
  /\ UNCHANGED <<attempt, extracted, apiKey, schemaId, rec, archive, store,
                 store0, binarySaved>>

\* ------------------------------------------------------------------ submit
\* upload_document: what the call raises, or "ok", for one environment reply.
\* The file is read first, then the key is checked, then the request is sent.
UploadReplies == {"read_error", "ok", "http_error", "transport_error", "not_json"}

\* Whether upload_document issues its HTTP request (line 85) for this reply.
UploadSends(reply) == reply # "read_error" /\ apiKey

\* Variant: the credential is not checked before the request is sent.
UploadResult_NoKeyCheck(reply) ==
  CASE reply = "read_error" -> "OSError"
    [] reply = "http_error" -> "HTTPError"
    [] reply = "transport_error" -> "ConnectionError"
    [] reply = "not_json" -> "ValueError"
    [] OTHER -> "ok"

UploadResult(reply) ==
  CASE reply = "read_error" -> "OSError"
    [] ~apiKey -> "ValueError"
    [] reply = "http_error" -> "HTTPError"
    [] reply = "transport_error" -> "ConnectionError"
    [] reply = "not_json" -> "ValueError"
    [] OTHER -> "ok"

\* main, lines 324 and 421-427: an exception of upload_document leaves the
\* try block.
PcAfterUpload(result) == IF result = "ok" THEN "schema" ELSE "done"

UploadDocument ==
  /\ pc = "upload"
  /\ \E reply \in UploadReplies :
       /\ pc' = PcAfterUpload(UploadResult(reply))
       /\ IF UploadResult(reply) = "ok"
          THEN /\ msgs' = msgs \cup {"uploaded"}
               /\ hist' = [hist EXCEPT !.prev = "upload",
                                       !.uploadReply = reply,
                                       !.uploads = @ + 1]
               /\ UNCHANGED outcome
          ELSE /\ msgs' = msgs \cup {OuterHandler(UploadResult(reply))}
               /\ outcome' = OuterHandler(UploadResult(reply))
               /\ hist' = [hist EXCEPT !.prev = "upload_raised",
                             !.uploadReply = reply,
                             !.uploads = IF UploadSends(reply) THEN @ + 1 ELSE @]
  /\ UNCHANGED <<attempt, extracted, apiKey, schemaId, rec, input, archive,
                 store, store0, binarySaved>>

\* Variant: the schema identifier is not checked.
CheckSchema_NoCheck ==
  /\ pc = "schema"
  /\ pc' = "warmup"
  /\ hist' = [hist EXCEPT !.prev = "schema"]
  /\ UNCHANGED <<attempt, extracted, apiKey, schemaId, rec, input, archive,
                 store, store0, binarySaved, msgs, outcome>>

\* Variant: standardize_document is called without the warm-up wait.
CheckSchema_SkipWarmup ==
  /\ pc = "schema"
  /\ IF schemaId
     THEN /\ pc' = "standardize"
          /\ hist' = [hist EXCEPT !.prev = "schema"]
          /\ UNCHANGED <<msgs, outcome>>
     ELSE /\ pc' = "done"
          /\ msgs' = msgs \cup {"schema_missing", OuterHandler("ValueError")}
          /\ outcome' = OuterHandler("ValueError")
          /\ hist' = [hist EXCEPT !.prev = "schema_missing"]
  /\ UNCHANGED <<attempt, extracted, apiKey, schemaId, rec, input, archive,
                 store, store0, binarySaved>>

\* main, lines 331-335: SCHEMA_ID must be configured.
CheckSchema ==
  /\ pc = "schema"
  /\ IF schemaId
     THEN /\ pc' = "warmup"
          /\ hist' = [hist EXCEPT !.prev = "schema"]
          /\ UNCHANGED <<msgs, outcome>>
     ELSE /\ pc' = "done"
          /\ msgs' = msgs \cup {"schema_missing", OuterHandler("ValueError")}
          /\ outcome' = OuterHandler("ValueError")
          /\ hist' = [hist EXCEPT !.prev = "schema_missing"]
  /\ UNCHANGED <<attempt, extracted, apiKey, schemaId, rec, input, archive,
                 store, store0, binarySaved>>

\* main, line 338: time.sleep(20) before standardize.
WarmupSleep ==
  /\ pc = "warmup"
  /\ pc' = "standardize"
  /\ hist' = [hist EXCEPT !.prev = "warmup"]
  /\ UNCHANGED <<attempt, extracted, apiKey, schemaId, rec, input, archive,
                 store, store0, binarySaved, msgs, outcome>>

\* standardize_document and main lines 339-350.
StandardizeReplies == {"ids", "no_ids", "http_error", "transport_error", "not_json"}

\* Variant: an empty list of standardization ids is not rejected.
StandardizeResult_NoIdCheck(reply) ==
  CASE reply = "http_error" -> "HTTPError"
    [] reply = "transport_error" -> "ConnectionError"
    [] reply = "not_json" -> "ValueError"
    [] OTHER -> "ok"

StandardizeResult(reply) ==
  CASE reply = "http_error" -> "HTTPError"
    [] reply = "transport_error" -> "ConnectionError"
    [] reply = "not_json" -> "ValueError"
    [] reply = "no_ids" -> "ValueError"
    [] OTHER -> "ok"

\* Variant: a failed standardize call is swallowed and polling starts.
PcAfterStandardize_Swallow(result) == "loop"

\* main, lines 339-345 and 421-427: an exception of standardize_document, or
\* an empty id list, leaves the try block.
PcAfterStandardize(result) == IF result = "ok" THEN "loop" ELSE "done"

StandardizeDocument ==
  /\ pc = "standardize"
  /\ \E reply \in StandardizeReplies :
       /\ pc' = PcAfterStandardize(StandardizeResult(reply))
       /\ IF StandardizeResult(reply) = "ok"
          THEN /\ msgs' = msgs \cup {"standardization_started"}
               /\ hist' = [hist EXCEPT !.prev = "standardize",
                                       !.stdReply = reply,
                                       !.standardizes = @ + 1]
               /\ UNCHANGED outcome
          ELSE /\ msgs' = msgs \cup
                    (IF reply = "no_ids" THEN {"no_standardization_id"} ELSE {})
                    \cup {OuterHandler(StandardizeResult(reply))}
               /\ outcome' = OuterHandler(StandardizeResult(reply))
               /\ hist' = [hist EXCEPT
                             !.prev = IF reply = "no_ids" THEN "no_ids"
                                      ELSE "standardize_raised",
                             !.stdReply = reply,
                             !.standardizes = @ + 1]
  /\ UNCHANGED <<attempt, extracted, apiKey, schemaId, rec, input, archive,
                 store, store0, binarySaved>>

\* ----------------------------------------------------------------- polling
\* Variant: the loop gives up one attempt early.
LoopCond_OneShort(a) == a < max_attempts - 1

\* Variant: the loop test is inclusive, allowing one attempt more.
LoopCond_Inclusive(a) == a <= max_attempts

\* main, line 364: while attempt < max_attempts
LoopCond(a) == a < max_attempts

\* main, line 414: attempt += 1
NextAttempt(a) == a + 1

\* main, line 364: the loop test.
LoopCheck ==
  /\ pc = "loop"
  /\ IF LoopCond(attempt)
     THEN /\ pc' = "sleep"
          /\ UNCHANGED <<msgs, outcome>>
     ELSE pc' = "after"
  /\ hist' = [hist EXCEPT !.prev = "loop",
                          !.lastReply = IF LoopCond(attempt) THEN "none" ELSE @,
                          !.lastSave = IF LoopCond(attempt) THEN "none" ELSE @]
  /\ UNCHANGED <<attempt, extracted, apiKey, schemaId, rec, input, archive,
                 store, store0, binarySaved, msgs, outcome>>

\* main, line 367: time.sleep(poll_interval)
PollSleep ==
  /\ pc = "sleep"
  /\ pc' = "retrieve"
  /\ hist' = [hist EXCEPT !.prev = "sleep", !.sleeps = @ + 1]
  /\ UNCHANGED <<attempt, extracted, apiKey, schemaId, rec, input, archive,
                 store, store0, binarySaved, msgs, outcome>>

\* What the remote service and the local disk do to one retrieve call:
\*   record         a JSON object with a 'data' record
\*   not_ready      a non-empty JSON value in which 'data' does not occur
\*   empty          an empty (falsy) JSON value: {}, [], "", 0, false, null
\*   unsubscriptable a non-empty JSON list or string in which 'data' occurs
\*   binary         a body that is not JSON, written to extracted_data
\*   binary_unsaved a body that is not JSON, and the write fails
\*   http_error     raise_for_status raises
\*   transport_error any other exception of requests.get
PollReplies == {"record", "not_ready", "empty", "unsubscriptable", "binary",
                "binary_unsaved", "http_error", "transport_error"}

\* retrieve_extracted_data, lines 160-188: "json", "none" (binary saved) or
\* "raise".
RetrieveExtractedData(reply) ==
  CASE reply \in {"record", "not_ready", "empty", "unsubscriptable"} -> "json"
    [] reply = "binary" -> "none"
    [] OTHER -> "raise"

\* retrieve_extracted_data, lines 168-182: the binary body is written to disk.
RetrieveWritesBinary(reply) == reply = "binary"

\* Variant: a falsy reply is not short-circuited: the 'data' lookup runs on
\* it and is taken to succeed.
Classify_NoTruthTest(reply) ==
  CASE RetrieveExtractedData(reply) = "raise" -> "raise"
    [] RetrieveExtractedData(reply) = "none" -> "no_data"
    [] reply \in {"record", "empty"} -> "extract"
    [] reply = "unsubscriptable" -> "raise"
    [] OTHER -> "no_data"

\* Variant: every parsed JSON reply is taken as the record, 'data' or not.
Classify_AnyJson(reply) ==
  CASE RetrieveExtractedData(reply) = "raise" -> "raise"
    [] RetrieveExtractedData(reply) = "none" -> "no_data"
    [] reply = "unsubscriptable" -> "raise"
    [] OTHER -> "extract"

\* main, lines 370-371: what the loop body does with the reply:
\* "extract" (a record is taken), "no_data" (else branch) or "raise".
Classify(reply) ==
  CASE RetrieveExtractedData(reply) = "raise" -> "raise"
    [] RetrieveExtractedData(reply) = "none" -> "no_data"
    [] reply = "record" -> "extract"
    [] reply = "unsubscriptable" -> "raise"
    [] OTHER -> "no_data"

\* Variant: an exception in a poll attempt leaves the loop.
PcAfterPoll_Abort(class) ==
  CASE class = "extract" -> "save"
    [] class = "raise" -> "after"
    [] OTHER -> "loop"

\* main, lines 370-375 and 409-414: where the run goes after the reply.
PcAfterPoll(class) == IF class = "extract" THEN "save" ELSE "loop"

\* main, lines 368-371 and 409-414: one call of retrieve_extracted_data and
\* the branch taken on its result.
Poll ==
  /\ pc = "retrieve"
  /\ \E reply \in PollReplies :
       /\ binarySaved' = (binarySaved \/ RetrieveWritesBinary(reply))
       /\ hist' = [hist EXCEPT
                     !.prev = "poll",
                     !.polls = @ + 1,
                     !.lastReply = reply,
                     !.allNotReady = @ /\ reply \in {"not_ready", "empty"},
                     !.boundary = /\ hist.allNotReady
                                  /\ hist.polls = max_attempts - 1
                                  /\ reply = "record",
                     !.firstRecord = hist.allNotReady /\ reply = "record",
                     !.sawRecord = @ \/ reply = "record",
                     !.savedNow = FALSE]
       /\ pc' = PcAfterPoll(Classify(reply))
       /\ attempt' = IF Classify(reply) = "extract" THEN attempt
                      ELSE NextAttempt(attempt)
  /\ UNCHANGED <<extracted, apiKey, schemaId, rec, input, archive, store,
                 store0, msgs, outcome>>

\* ----------------------------------------------------------------- persist
\* How one save_data_to_excel call goes:
\*   ok        the create or the read-concat-rewrite path succeeds
\*   fallback  that path raises and the recreation (line 283) succeeds
\*   raise     that path raises and the recreation raises too
\*   early     json_normalize or makedirs raises, before the file is touched
SaveOutcomes == {"ok", "fallback", "raise", "early"}

\* An unreadable file cannot take the normal path: read_excel raises.
SavePossible(st, how) == how = "ok" => st.state # "corrupt"

\* save_data_to_excel, lines 261-288: the store after the call; a failed
\* rewrite leaves the file as it was (trunc = FALSE) or truncated.
\* Variant: the fallback does not rewrite the file.
SaveDataToExcel_NoRecreate(st, r, how, trunc) ==
  CASE how = "ok" -> IF st.state = "nofile" THEN NewDf(r) ELSE Concat(st, NewDf(r))
    [] how = "raise" -> IF trunc THEN Corrupt ELSE st
    [] OTHER -> st

SaveDataToExcel(st, r, how, trunc) ==
  CASE how = "ok" -> IF st.state = "nofile" THEN NewDf(r) ELSE Concat(st, NewDf(r))
    [] how = "fallback" -> NewDf(r)
    [] how = "raise" -> IF trunc THEN Corrupt ELSE st
    [] OTHER -> st

\* Variant: a failed save returns normally.
SaveRaises_Never(how) == FALSE

\* save_data_to_excel raises (lines 253-258, 285-288).
SaveRaises(how) == how \in {"raise", "early"}

\* Variant: the archive step follows the save whether or not it raised.
PcAfterSave_IgnoreRaise(how) == "archive"

\* main, lines 375-379 and 411-414: where the run goes after the save.
PcAfterSave(how) == IF SaveRaises(how) THEN "loop" ELSE "archive"

Save ==
  /\ pc = "save"
  /\ \E how \in SaveOutcomes, trunc \in BOOLEAN :
       /\ SavePossible(store, how)
       /\ store' = SaveDataToExcel(store, rec, how, trunc)
       /\ pc' = PcAfterSave(how)
       /\ attempt' = IF SaveRaises(how) THEN NextAttempt(attempt) ELSE attempt
       /\ msgs' = IF how = "raise" THEN msgs \cup {"save_failed"} ELSE msgs
       /\ hist' = [hist EXCEPT
                     !.prev = IF SaveRaises(how) THEN "save_raised" ELSE "save_ok",
                     !.saveCalled = TRUE,
                     !.lastSave = how,
                     !.saved = @ \/ ~SaveRaises(how),
                     !.savedNow = ~SaveRaises(how),
                     !.localFault = @ \/ SaveRaises(how)]
  /\ UNCHANGED <<extracted, apiKey, schemaId, rec, input, archive, store0,
                 binarySaved, outcome>>

\* ----------------------------------------------------------------- archive
\* How one archive_file call goes: the removal of an existing destination
\* fails, the move fails, or both succeed.
ArchiveOutcomes == {"remove_fails", "move_fails", "ok"}

\* archive_file raises (lines 237-240): a missing source cannot be moved.
ArchiveRaises(arch, inp, how) ==
  \/ arch # "none" /\ how = "remove_fails"
  \/ how = "move_fails"
  \/ inp = "none"

\* archive_file, lines 229-231: the destination after the removal step.
ArchiveAfterRemove(arch, how) ==
  IF arch # "none" /\ how # "remove_fails" THEN "none" ELSE arch

\* archive_file, lines 229-235: archive_folder/<name> after the call.
\* Variant: an existing archived file is kept instead of being replaced.
ArchiveDest_KeepExisting(arch, inp, how) ==
  IF ArchiveRaises(arch, inp, how) THEN ArchiveAfterRemove(arch, how)
  ELSE IF arch # "none" THEN arch ELSE inp

ArchiveDest(arch, inp, how) ==
  IF ArchiveRaises(arch, inp, how) THEN ArchiveAfterRemove(arch, how) ELSE inp

\* archive_file, line 234: input_folder/<name> after the call.
\* Variant: the staged file is copied, not moved.
ArchiveSrc_Copy(arch, inp, how) == inp

ArchiveSrc(arch, inp, how) ==
  IF ArchiveRaises(arch, inp, how) THEN inp ELSE "none"

\* main, lines 379-381 and 411-414: where the run goes after archive_file.
PcAfterArchive(raised) == IF raised THEN "loop" ELSE "download"

ArchiveFile ==
  /\ pc = "archive"
  /\ \E how \in ArchiveOutcomes :
       LET raised == ArchiveRaises(archive, input, how)
       IN /\ archive' = ArchiveDest(archive, input, how)
          /\ input' = ArchiveSrc(archive, input, how)
          /\ pc' = PcAfterArchive(raised)
          /\ attempt' = IF raised THEN NextAttempt(attempt) ELSE attempt
          /\ msgs' = msgs \cup (IF raised THEN {"archive_failed"} ELSE {"success"})
          /\ hist' = [hist EXCEPT
                        !.prev = IF raised THEN "archive_raised" ELSE "archive_ok",
                        !.archiveCalled = TRUE,
                        !.replaced = @ \/ (archive # "none" /\ ~raised),
                        !.savedNow = IF raised THEN FALSE ELSE @,
                        !.localFault = @ \/ raised]
  /\ UNCHANGED <<extracted, apiKey, schemaId, rec, store, store0, binarySaved,
                 outcome>>

\* main, lines 383-408: the two files are read back for the download buttons;
\* then extracted = True and the loop is left.
Download ==
  /\ pc = "download"
  /\ \E ok \in BOOLEAN :
       IF ok
       THEN /\ extracted' = TRUE
            /\ pc' = "after"
            /\ hist' = [hist EXCEPT !.prev = "download"]
            /\ UNCHANGED attempt
       ELSE /\ pc' = "loop"
            /\ attempt' = NextAttempt(attempt)
            /\ hist' = [hist EXCEPT !.prev = "download_raised",
                                    !.savedNow = FALSE,
                                    !.localFault = TRUE]
            /\ UNCHANGED extracted
  /\ UNCHANGED <<apiKey, schemaId, rec, input, archive, store, store0,
                 binarySaved, msgs, outcome>>

\* Variant: a loop that ended unextracted is entered again instead of being
\* reported.
AfterLoop_Reenter ==
  /\ pc = "after"
  /\ IF ~extracted
     THEN /\ pc' = "loop"
          /\ UNCHANGED <<msgs, outcome>>
     ELSE /\ pc' = "done"
          /\ outcome' = "success"
          /\ UNCHANGED msgs
  /\ hist' = [hist EXCEPT !.prev = "after"]
  /\ UNCHANGED <<attempt, extracted, apiKey, schemaId, rec, input, archive,
                 store, store0, binarySaved>>

\* main, lines 417-419: the timeout report when the loop ended unextracted.
AfterLoop ==
  /\ pc = "after"
  /\ pc' = "done"
  /\ IF ~extracted
     THEN /\ msgs' = msgs \cup {"timeout"}
          /\ outcome' = "timed_out"
     ELSE /\ outcome' = "success"
          /\ UNCHANGED msgs
  /\ hist' = [hist EXCEPT !.prev = "after"]
  /\ UNCHANGED <<attempt, extracted, apiKey, schemaId, rec, input, archive,
                 store, store0, binarySaved>>

\* ------------------------------------------------------------ specification
Next ==
  \/ SaveUploadedFile
  \/ UploadDocument
  \/ CheckSchema
  \/ WarmupSleep
  \/ StandardizeDocument
  \/ LoopCheck
  \/ PollSleep
  \/ Poll
  \/ Save
  \/ ArchiveFile
  \/ Download
  \/ AfterLoop

Spec == Init /\ [][Next]_vars

\* The run is one sequential thread: as long as every remote call, wait and
\* file operation returns, with a result or an exception, it takes its next
\* step.
LiveSpec == Spec /\ WF_vars(Next)

\* -------------------------------------------------- the result sink alone
\* A sequence of save_data_to_excel calls on one destination that does not
\* exist at first.  store0 is the store before the latest call, rec the
\* record of that call; hist keeps how the call went, the records given so
\* far, and whether every call so far took the normal path.

\* A record with a nested object, beside the flat ones.
RecN == (<<"vendor">> :> "Nest") @@ (<<"address", "city">> :> "Paris")
SinkRecords == Records \cup {RecN}

SinkInit ==
  /\ pc = "sink"
  /\ attempt = 0
  /\ extracted = FALSE
  /\ apiKey = TRUE
  /\ schemaId = TRUE
  /\ rec = RecA
  /\ input = "none"
  /\ archive = "none"
  /\ store = NoFile
  /\ store0 = NoFile
  /\ binarySaved = FALSE
  /\ msgs = {}
  /\ outcome = "none"
  /\ hist = [prev |-> "none", how |-> "none", appended |-> <<>>, clean |-> TRUE]

\* One save_data_to_excel(r) call, lines 243-288.
SinkAppend ==
  /\ pc = "sink"
  /\ Len(hist.appended) < MaxAppends
  /\ \E r \in SinkRecords, how \in SaveOutcomes, trunc \in BOOLEAN :
       /\ SavePossible(store, how)
       /\ store' = SaveDataToExcel(store, r, how, trunc)
       /\ store0' = store
       /\ rec' = r
       /\ hist' = [prev |-> "sink", how |-> how,
                   appended |-> Append(hist.appended, r),
                   clean |-> hist.clean /\ how = "ok"]
  /\ UNCHANGED <<pc, attempt, extracted, apiKey, schemaId, input, archive,
                 binarySaved, msgs, outcome>>

SinkNext == SinkAppend

SinkSpec == SinkInit /\ [][SinkNext]_vars

\* ------------------------------------------------- two concurrent sessions
\* Two sessions run main() on a file of the same name, sharing input_folder,
\* archive_folder and the tabular store; nothing in the code locks any of
\* them.  Each file-system call is one step.  pc, attempt, extracted, rec
\* and outcome are per session; store0[p] is session p's existing_df.  The
\* remote service is taken to answer every poll with the session's record.
Procs == {1, 2}

ConcInit ==
  /\ pc = [p \in Procs |-> "stage"]
  /\ attempt = [p \in Procs |-> 0]
  /\ extracted = [p \in Procs |-> FALSE]
  /\ apiKey = TRUE
  /\ schemaId = TRUE
  /\ rec \in [Procs -> Records]
  /\ input = "none"
  /\ archive \in {"none", "old"}
  /\ store \in TablesUpTo(MaxPrior)
  /\ store0 = [p \in Procs |-> NoFile]
  /\ binarySaved = FALSE
  /\ msgs = {}
  /\ outcome = [p \in Procs |-> "none"]
  /\ hist = [prior |-> store, staged |-> FALSE,
             wrote |-> [p \in Procs |-> FALSE],
             removed |-> [p \in Procs |-> FALSE]]

\* save_uploaded_file, lines 204-205: the file is written to input_folder.
ConcStage(p) ==
  /\ pc[p] = "stage"
  /\ input' = "new"
  /\ pc' = [pc EXCEPT ![p] = "upload"]
  /\ hist' = [hist EXCEPT !.staged = TRUE]
  /\ UNCHANGED <<attempt, extracted, apiKey, schemaId, rec, archive, store,
                 store0, binarySaved, msgs, outcome>>

\* upload_document, lines 55-56: open(file_path, 'rb') raises when the file
\* is gone, which the handler at line 426 reports; otherwise the run goes on
\* to the polling loop.
ConcUpload(p) ==
  /\ pc[p] = "upload"
  /\ IF input = "none"
       THEN /\ pc' = [pc EXCEPT ![p] = "done"]
            /\ outcome' = [outcome EXCEPT ![p] = "failed"]
            /\ msgs' = msgs \cup {"unexpected_error"}
       ELSE /\ pc' = [pc EXCEPT ![p] = "isfile"]
            /\ UNCHANGED <<outcome, msgs>>
  /\ UNCHANGED <<attempt, extracted, apiKey, schemaId, rec, input, archive,
                 store, store0, binarySaved, hist>>

\* The except at line 411 and attempt += 1 at line 414, then the loop
\* condition at line 364 and the timeout report at lines 417-419.
ConcRetry(p) ==
  /\ attempt' = [attempt EXCEPT ![p] = @ + 1]
  /\ IF attempt[p] + 1 < max_attempts
       THEN /\ pc' = [pc EXCEPT ![p] = "isfile"]
            /\ UNCHANGED outcome
       ELSE /\ pc' = [pc EXCEPT ![p] = "done"]
            /\ outcome' = [outcome EXCEPT ![p] = "timed_out"]

\* save_data_to_excel, line 262: os.path.isfile(output_file).
ConcIsFile(p) ==
  /\ pc[p] = "isfile"
  /\ pc' = [pc EXCEPT ![p] = IF store.state = "nofile" THEN "create" ELSE "read"]
  /\ UNCHANGED <<attempt, extracted, apiKey, schemaId, rec, input, archive,
                 store, store0, binarySaved, msgs, outcome, hist>>

\* save_data_to_excel, line 264: new_df.to_excel(output_file).
ConcCreate(p) ==
  /\ pc[p] = "create"
  /\ store' = NewDf(rec[p])
  /\ pc' = [pc EXCEPT ![p] = "exists"]
  /\ hist' = [hist EXCEPT !.wrote[p] = TRUE]
  /\ UNCHANGED <<attempt, extracted, apiKey, schemaId, rec, input, archive,
                 store0, binarySaved, msgs, outcome>>

\* save_data_to_excel, line 268: existing_df = pd.read_excel(output_file).
ConcRead(p) ==
  /\ pc[p] = "read"
  /\ store0' = [store0 EXCEPT ![p] = store]
  /\ pc' = [pc EXCEPT ![p] = "write"]
  /\ UNCHANGED <<attempt, extracted, apiKey, schemaId, rec, input, archive,
                 store, binarySaved, msgs, outcome, hist>>

\* save_data_to_excel, lines 272-276: concat and rewrite.
ConcWrite(p) ==
  /\ pc[p] = "write"
  /\ store' = Concat(store0[p], NewDf(rec[p]))
  /\ pc' = [pc EXCEPT ![p] = "exists"]
  /\ hist' = [hist EXCEPT !.wrote[p] = TRUE]
  /\ UNCHANGED <<attempt, extracted, apiKey, schemaId, rec, input, archive,
                 store0, binarySaved, msgs, outcome>>

\* archive_file, line 229: os.path.exists(destination).
ConcExists(p) ==
  /\ pc[p] = "exists"
  /\ pc' = [pc EXCEPT ![p] = IF archive # "none" THEN "remove" ELSE "move"]
  /\ UNCHANGED <<attempt, extracted, apiKey, schemaId, rec, input, archive,
                 store, store0, binarySaved, msgs, outcome, hist>>

\* archive_file, line 230: os.remove(destination); it raises when the other
\* session removed the file first, and lines 237-240 report and re-raise.
ConcRemove(p) ==
  /\ pc[p] = "remove"
  /\ IF archive = "none"
       THEN /\ msgs' = msgs \cup {"archive_failed"}
            /\ ConcRetry(p)
            /\ UNCHANGED <<archive, hist>>
       ELSE /\ archive' = "none"
            /\ pc' = [pc EXCEPT ![p] = "move"]
            /\ hist' = [hist EXCEPT !.removed[p] = TRUE]
            /\ UNCHANGED <<attempt, outcome, msgs>>
  /\ UNCHANGED <<extracted, apiKey, schemaId, rec, input, store, store0,
                 binarySaved>>

\* archive_file, line 234: shutil.move(file_path, destination); it raises
\* when the other session already moved the file.  On success the run
\* reports at line 381 and leaves the loop at lines 407-408.
ConcMove(p) ==
  /\ pc[p] = "move"
  /\ IF input = "none"
       THEN /\ msgs' = msgs \cup {"archive_failed"}
            /\ ConcRetry(p)
            /\ UNCHANGED <<input, archive, extracted, hist>>
       ELSE /\ archive' = input
            /\ input' = "none"
            /\ extracted' = [extracted EXCEPT ![p] = TRUE]
            /\ pc' = [pc EXCEPT ![p] = "done"]
            /\ outcome' = [outcome EXCEPT ![p] = "success"]
            /\ msgs' = msgs \cup {"success"}
            /\ hist' = [hist EXCEPT !.removed[p] = FALSE]
            /\ UNCHANGED attempt
  /\ UNCHANGED <<apiKey, schemaId, rec, store, store0, binarySaved>>

ConcNext ==
  \E p \in Procs :
    \/ ConcStage(p)
    \/ ConcUpload(p)
    \/ ConcIsFile(p)
    \/ ConcCreate(p)
    \/ ConcRead(p)
    \/ ConcWrite(p)
    \/ ConcExists(p)
    \/ ConcRemove(p)
    \/ ConcMove(p)

ConcSpec == ConcInit /\ [][ConcNext]_vars

\* ------------------------------------------------- the remote client alone
\* A sequence of calls of the three remote operations, in any order, each
\* with any reply of the service; hist.calls logs, per call, the operation,
\* the reply, whether the HTTP request was sent, and what the call raised
\* ("ok", "json" or "none" when it returned).

\* standardize_document, lines 122-129: the request is posted whatever
\* os.getenv("API_KEY") returned.
StandardizeSends(reply) == TRUE

\* standardize_document, lines 128-138: what the call raises, or "ok".
StandardizeDocumentResult(reply) ==
  CASE reply = "http_error" -> "HTTPError"
    [] reply = "transport_error" -> "ConnectionError"
    [] reply = "not_json" -> "ValueError"
    [] OTHER -> "ok"

ClientInit ==
  /\ pc = "client"
  /\ attempt = 0
  /\ extracted = FALSE
  /\ apiKey \in BOOLEAN
  /\ schemaId = TRUE
  /\ rec = RecA
  /\ input = "new"
  /\ archive = "none"
  /\ store = NoFile
  /\ store0 = NoFile
  /\ binarySaved = FALSE
  /\ msgs = {}
  /\ outcome = "none"
  /\ hist = [prev |-> "none", calls |-> <<>>]

\* The call is logged.
Logged(op, reply, sent, result) ==
  hist' = [prev |-> op,
           calls |-> Append(hist.calls, [op |-> op, reply |-> reply,
                                         sent |-> sent, result |-> result])]

\* One upload_document call, lines 36-98.
ClientUpload ==
  /\ pc = "client"
  /\ Len(hist.calls) < MaxCalls
  /\ \E reply \in UploadReplies :
       Logged("upload", reply, UploadSends(reply), UploadResult(reply))
  /\ UNCHANGED <<pc, attempt, extracted, apiKey, schemaId, rec, input, archive,
                 store, store0, binarySaved, msgs, outcome>>

\* One standardize_document call, lines 100-138.
ClientStandardize ==
  /\ pc = "client"
  /\ Len(hist.calls) < MaxCalls
  /\ \E reply \in StandardizeReplies :
       Logged("standardize", reply, StandardizeSends(reply),
              StandardizeDocumentResult(reply))
  /\ UNCHANGED <<pc, attempt, extracted, apiKey, schemaId, rec, input, archive,
                 store, store0, binarySaved, msgs, outcome>>

\* One retrieve_extracted_data call, lines 140-188.
ClientRetrieve ==
  /\ pc = "client"
  /\ Len(hist.calls) < MaxCalls
  /\ \E reply \in PollReplies :
       /\ Logged("retrieve", reply, TRUE, RetrieveExtractedData(reply))
       /\ binarySaved' = (binarySaved \/ RetrieveWritesBinary(reply))
  /\ UNCHANGED <<pc, attempt, extracted, apiKey, schemaId, rec, input, archive,
                 store, store0, msgs, outcome>>

ClientNext ==
  \/ ClientUpload
  \/ ClientStandardize
  \/ ClientRetrieve

ClientSpec == ClientInit /\ [][ClientNext]_vars

\* ================================================================== claims
Failed == {"http_error", "configuration_error", "error"}

\* An archive_file step: the run is at the archive call and leaves it.
ArchiveStep == pc = "archive" /\ pc' # "archive"

\* C1: the staged file is moved to the archive only right after
\* save_data_to_excel returned normally in the same poll attempt; when the
\* save raises, the attempt ends without an archive_file call.
C1_ArchiveOnlyAfterSave ==
  [][ /\ (pc' = "archive" =>
            pc = "save" /\ hist'.prev = "save_ok" /\ attempt' = attempt)
      /\ (ArchiveStep \/ archive' # archive \/ (input = "new" /\ input' # "new") =>
            pc = "archive" /\ hist.prev = "save_ok" /\ hist.savedNow)
      /\ (pc = "save" /\ hist'.prev = "save_raised" =>
            pc' = "loop" /\ attempt' = attempt + 1 /\ archive' = archive
            /\ input' = input) ]_vars

C1_Witness ==
  hist.prev = "archive_ok" /\ archive = "new" /\ input = "none" /\ hist.saved

\* C2 (as claimed): when the run has ended, the staged file is in the archive
\* if and only if the run's record was written to the tabular store.
C2_ArchivedIffPersisted ==
  pc = "done" => ((archive = "new") <=> hist.saved)

\* C3: when all max_attempts polls return no record or raise, the run ends
\* timed out: the timeout is reported, the file is still staged, archive_file
\* was never called and the store is as it was.
C3_TimedOut ==
  (pc = "done" /\ hist.polls = max_attempts /\ ~hist.sawRecord) =>
     /\ outcome = "timed_out"
     /\ "timeout" \in msgs
     /\ "success" \notin msgs
     /\ input = "new"
     /\ archive # "new"
     /\ ~hist.archiveCalled
     /\ ~hist.saveCalled
     /\ store = store0

C3_Witness ==
  /\ pc = "done" /\ hist.polls = max_attempts /\ ~hist.sawRecord
  /\ outcome = "timed_out" /\ input = "new"

\* The last row of the table st carries the record r.
LastRowIs(st, r) ==
  /\ st.state = "ok"
  /\ Len(st.rows) >= 1
  /\ \A c \in DOMAIN JsonNormalize(r) :
        c \in st.cols /\ st.rows[Len(st.rows)][c] = JsonNormalize(r)[c]

C5_PollErrorAbsorbed ==
  [][ /\ (pc = "retrieve" /\ hist'.polls = hist.polls + 1
          /\ RetrieveExtractedData(hist'.lastReply) = "raise") =>
            /\ attempt' = attempt + 1
            /\ pc' = "loop"
            /\ outcome' = "none"
            /\ msgs' = msgs
      /\ (pc = "loop" /\ attempt < max_attempts) => pc' = "sleep"
      /\ (pc = "sleep") => pc' = "retrieve" ]_vars

C5_Witness ==
  /\ hist.prev = "sleep" /\ pc = "retrieve" /\ hist.polls >= 1
  /\ ~hist.sawRecord /\ ~hist.allNotReady /\ ~binarySaved

\* C6: retrieve_extracted_data is called at most max_attempts times, and each
\* call directly follows one wait of poll_interval of its own.
C6_PollsBoundedAndPaced ==
  /\ [](hist.polls <= max_attempts /\ hist.sleeps <= max_attempts)
  /\ [][hist'.polls # hist.polls =>
          /\ hist'.polls = hist.polls + 1
          /\ hist.prev = "sleep"
          /\ hist.sleeps = hist.polls + 1]_vars

C6_Witness ==
  hist.polls = max_attempts /\ hist.sleeps = max_attempts /\ hist.prev = "poll"

\* save_data_to_excel or archive_file has raised in this run.
LocalIOFailed == "archive_failed" \in msgs \/ "save_failed" \in msgs

\* C7 (as claimed): once archive_file or save_data_to_excel has failed, the
\* run makes no further poll, store write or archive attempt, and does not
\* end as timed out or successful.
C7_LocalFailureAborts ==
  [][LocalIOFailed =>
       /\ hist'.polls = hist.polls
       /\ store' = store
       /\ ~ArchiveStep
       /\ outcome' \notin {"timed_out", "success"}]_vars

\* C8 (as claimed): within one run the record is appended at most once: after
\* a save that returned normally, no later save returns normally.
C8_AppendedAtMostOnce ==
  [][(hist.saved /\ pc = "save") => hist'.prev # "save_ok"]_vars

\* C9 (as claimed): once a non-JSON body was saved to the extracted-binary
\* directory, the run makes no later retrieve_extracted_data call and does
\* not end timed out.
C9_BinaryIsTerminal ==
  [][binarySaved =>
       hist'.polls = hist.polls /\ outcome' # "timed_out"]_vars

\* C10: when upload_document or standardize_document raises, the run is over
\* at once, failed: no poll and no wait was made, no standardize call after a
\* failed upload, the store is as it was, the file is staged and not
\* archived; and a finished run takes no further step.
C10_RemoteFailureIsFatal ==
  /\ [](hist.prev \in {"upload_raised", "standardize_raised"} =>
          /\ pc = "done"
          /\ outcome \in Failed
          /\ hist.polls = 0 /\ hist.sleeps = 0
          /\ (hist.prev = "upload_raised" => hist.standardizes = 0)
          /\ store = store0
          /\ ~hist.saveCalled /\ ~hist.archiveCalled
          /\ input = "new" /\ archive # "new")
  /\ [][pc = "done" => UNCHANGED vars]_vars

C10_Witness ==
  /\ hist.prev = "standardize_raised" /\ pc = "done" /\ outcome = "http_error"
  /\ hist.uploads = 1 /\ input = "new"

\* C11 (as claimed): with the API credential absent, a run that called
\* upload_document has sent no request of any kind and ended with the
\* configuration error.
C11_NoKeyIsConfigError ==
  (~apiKey /\ hist.uploadReply # "none") =>
     /\ pc = "done"
     /\ hist.uploads = 0 /\ hist.standardizes = 0 /\ hist.polls = 0
     /\ outcome = "configuration_error"

\* C11 (amended): with the API credential absent, no request of any kind is
\* ever sent; a run that called upload_document is over, with the
\* configuration error when the staged file could be read, and with the
\* generic error when reading it failed (the file is read before the
\* credential is checked).
C11_NoKeyNoRequest ==
  /\ ~apiKey => hist.uploads = 0 /\ hist.standardizes = 0 /\ hist.polls = 0
  /\ (~apiKey /\ hist.uploadReply # "none") =>
        /\ pc = "done"
        /\ hist.prev = "upload_raised"
        /\ outcome = IF hist.uploadReply = "read_error" THEN "error"
                     ELSE "configuration_error"
        /\ outcome \in msgs
        /\ input = "new" /\ store = store0 /\ ~hist.archiveCalled

C11_Witness ==
  /\ ~apiKey /\ hist.uploadReply = "ok" /\ pc = "done"
  /\ outcome = "configuration_error" /\ hist.uploads = 0

\* C12: with the schema identifier missing, a run whose submit succeeded ends
\* failed with the configuration error; standardize_document is never called,
\* no wait and no poll is made, the store is untouched and the file stays
\* staged.
C12_NoSchemaIsConfigError ==
  /\ ~schemaId =>
        /\ hist.standardizes = 0 /\ hist.polls = 0 /\ hist.sleeps = 0
        /\ pc \notin {"warmup", "standardize", "loop", "sleep", "retrieve"}
        /\ store = store0 /\ ~hist.archiveCalled /\ archive # "new"
  /\ (~schemaId /\ hist.prev = "upload") => pc = "schema"
  /\ (~schemaId /\ hist.uploadReply = "ok" /\ apiKey /\ pc = "done") =>
        /\ hist.prev = "schema_missing"
        /\ outcome = "configuration_error"
        /\ {"schema_missing", "configuration_error"} \subseteq msgs
        /\ hist.uploads = 1
        /\ input = "new"

C12_Witness ==
  /\ hist.prev = "schema_missing" /\ pc = "done" /\ hist.uploads = 1
  /\ outcome = "configuration_error" /\ input = "new"

\* C13: when the standardize reply carries no standardization id, the run
\* ends failed without entering the polling loop: no wait, no poll, the store
\* untouched, the file staged and not archived.
C13_NoIdsIsFatal ==
  hist.stdReply = "no_ids" =>
     /\ pc = "done"
     /\ outcome \in Failed
     /\ "no_standardization_id" \in msgs
     /\ hist.polls = 0 /\ hist.sleeps = 0
     /\ store = store0 /\ ~hist.saveCalled /\ ~hist.archiveCalled
     /\ input = "new" /\ archive # "new"

C13_Witness ==
  /\ hist.stdReply = "no_ids" /\ pc = "done" /\ hist.standardizes = 1
  /\ input = "new"

\* C15 (as claimed): whenever the read-concat-rewrite path of
\* save_data_to_excel fails, the store afterwards holds exactly the new record,
\* the call returns normally and the run goes on to the archive step.
C15_MergeFailureFallsBack ==
  [][(pc = "save" /\ hist'.lastSave \in {"fallback", "raise"}) =>
       /\ store' = NewDf(rec)
       /\ hist'.prev = "save_ok"
       /\ pc' = "archive"]_vars

\* C15 (amended): when that path fails and the recreation write succeeds, the
\* store holds exactly the new record, the call returns normally and the run
\* goes on to the archive step in the same attempt; when the recreation write
\* fails too, the call raises, the store is as before or unreadable, and the
\* attempt ends without the archive step.
C15_FallbackOrRaise ==
  [][ /\ (pc = "save" /\ hist'.lastSave = "fallback") =>
            /\ store' = NewDf(rec)
            /\ Len(store'.rows) = 1
            /\ hist'.prev = "save_ok"
            /\ pc' = "archive"
            /\ attempt' = attempt
            /\ msgs' = msgs
      /\ (pc = "save" /\ hist'.lastSave = "raise") =>
            /\ store' \in {store, Corrupt}
            /\ hist'.prev = "save_raised"
            /\ pc' = "loop"
            /\ attempt' = attempt + 1
            /\ "save_failed" \in msgs' ]_vars

C15_Witness ==
  /\ hist.lastSave = "fallback" /\ pc = "archive"
  /\ store0.state = "ok" /\ store0 # NewDf(rec)
  /\ store = NewDf(rec)

\* C16 (as claimed): a run whose save took the overwrite fallback shows the
\* user a degradation warning, so its status differs from that of a run whose
\* record was appended normally.
C16_DegradedIsSurfaced ==
  hist.lastSave = "fallback" => "persistence_degraded" \in msgs

\* C18: when archive_file succeeds and a file of the same name was already
\* archived, the archive afterwards holds the newly archived content under
\* that name and the file is gone from input_folder.
C18_ArchiveReplaces ==
  [][(pc = "archive" /\ archive # "none" /\ hist'.prev = "archive_ok") =>
       /\ input = "new"
       /\ archive' = "new"
       /\ input' = "none"]_vars

C18_Witness ==
  /\ hist.prev = "archive_ok" /\ hist.replaced
  /\ archive = "new" /\ input = "none"

\* Every row and every column of the table a is still in the table b.
Preserves(a, b) ==
  a.state = "ok" =>
    /\ b.state = "ok"
    /\ a.cols \subseteq b.cols
    /\ Len(a.rows) <= Len(b.rows)
    /\ \A i \in 1..Len(a.rows) : \A c \in a.cols : b.rows[i][c] = a.rows[i][c]

C17_RowsAndColumnUnion ==
  hist.clean =>
    LET n == Len(hist.appended)
        flat == [i \in 1..n |-> JsonNormalize(hist.appended[i])]
    IN /\ (n = 0) = (store.state = "nofile")
       /\ n > 0 => store.state = "ok"
       /\ Len(store.rows) = n
       /\ store.cols = UNION {DOMAIN flat[i] : i \in 1..n}
       /\ \A i \in 1..n :
            /\ DOMAIN store.rows[i] = store.cols
            /\ \A c \in store.cols :
                 store.rows[i][c] =
                   IF c \in DOMAIN flat[i] THEN flat[i][c] ELSE Empty

C17_Witness ==
  /\ hist.clean /\ Len(hist.appended) = 3
  /\ hist.appended[1] = hist.appended[2]
  /\ hist.appended[3] = RecN
  /\ hist.appended[1] = RecA
  /\ Len(store.rows) = 3
  /\ store.cols = {"total", "vendor", "address.city"}
  /\ store.rows[3]["total"] = Empty

\* The table t holds at least n rows equal to the record r.
HoldsRows(t, r, n) ==
  /\ t.state = "ok"
  /\ Cardinality({i \in 1..Len(t.rows) :
       \A c \in t.cols : t.rows[i][c] = Pad(JsonNormalize(r), t.cols)[c]}) >= n

\* C19: when two concurrent sessions have each appended their record and
\* finished, the store holds both new rows and every prior row.
C19_NoLostUpdate ==
  (\A p \in Procs : pc[p] = "done" /\ hist.wrote[p]) =>
    /\ Preserves(hist.prior, store)
    /\ \A p \in Procs :
         HoldsRows(store, rec[p], IF rec[1] = rec[2] THEN 2 ELSE 1)

\* C20: with two concurrent sessions on a file of the same name, once the
\* file has been staged it is always in input_folder or archive_folder, and
\* a session whose archive step removed the archived copy and has ended its
\* step left a copy in its place.
C20_FileNeverLost ==
  /\ hist.staged => (input # "none" \/ archive # "none")
  /\ \A p \in Procs :
       (hist.removed[p] /\ pc[p] # "move") => archive # "none"

\* The store st0 with one row for the record r appended.
Appended(st0, r) ==
  IF st0.state = "nofile" THEN NewDf(r) ELSE Concat(st0, NewDf(r))

\* C21: when submit and standardize succeed, the last poll made was the
\* first to return a record, after only "not ready" replies, and no local I/O
\* fails, the run ends in success: the store is the store of the start plus
\* one row equal to the record, the file is in archive_folder and no longer
\* in input_folder, and no poll followed the one that returned the record.
C21_HappyPath ==
  (/\ pc = "done" /\ hist.firstRecord
   /\ ~hist.localFault /\ hist.lastSave = "ok") =>
     /\ hist.uploadReply = "ok" /\ hist.stdReply = "ids"
     /\ hist.uploads = 1 /\ hist.standardizes = 1
     /\ store0.state # "corrupt"
     /\ store = Appended(store0, rec)
     /\ Len(store.rows) = Len(store0.rows) + 1
     /\ LastRowIs(store, rec)
     /\ archive = "new" /\ input = "none"
     /\ hist.lastReply = "record"
     /\ hist.polls <= max_attempts
     /\ attempt = hist.polls - 1
     /\ extracted
     /\ outcome = "success"
     /\ "success" \in msgs /\ "timeout" \notin msgs
     /\ msgs \cap Failed = {}

C21_Witness ==
  /\ pc = "done" /\ hist.firstRecord /\ hist.polls = 3
  /\ ~hist.localFault /\ hist.lastSave = "ok"
  /\ rec = RecA /\ Len(store0.rows) = 1 /\ Len(store.rows) = 2
  /\ archive = "new" /\ input = "none" /\ outcome = "success"

\* C22 (as claimed): once a poll has returned a record, the run does not end
\* timed out.
C22_NoTimeoutAfterRecord ==
  hist.sawRecord => (outcome # "timed_out" /\ "timeout" \notin msgs)

\* C23 (as claimed): a retrieve_extracted_data call leaves the local files as
\* they were, whatever the reply.
C23_FetchMutatesNothing ==
  [][pc = "retrieve" =>
       /\ binarySaved' = binarySaved
       /\ store' = store /\ input' = input /\ archive' = archive]_vars

\* C24 (as claimed): the run reports the configuration error only when the
\* API credential or the schema identifier is missing.
C24_ConfigErrorOnlyForConfig ==
  ("configuration_error" \in msgs \/ outcome = "configuration_error") =>
     (~apiKey \/ ~schemaId)

\* C25 (as claimed): at most one submit request and one standardize call are
\* made, standardize only after the submit reply, polls only after the
\* standardize reply, and no remote call once the file is archived.
C25_StrictOrder ==
  [][ /\ hist'.uploads <= 1 /\ hist'.standardizes <= 1
      /\ (hist'.standardizes # hist.standardizes => hist.uploadReply = "ok")
      /\ (hist'.polls # hist.polls => hist.stdReply = "ids")
      /\ (archive = "new" =>
            /\ hist'.polls = hist.polls
            /\ hist'.uploads = hist.uploads
            /\ hist'.standardizes = hist.standardizes) ]_vars

\* C28: with the schema identifier configured, a successful submit is
\* followed by the schema check, one warm-up wait, then the standardize call;
\* standardize is called at most once; polling starts with the attempt
\* counter at 0 and no poll wait or poll made.
C28_WarmupBeforeStandardize ==
  [][ /\ (pc = "upload" /\ hist'.prev = "upload") => pc' = "schema"
      /\ (pc = "schema" /\ schemaId) => pc' = "warmup"
      /\ pc' = "warmup" => (pc = "schema" /\ hist.prev = "upload" /\ schemaId)
      /\ pc = "warmup" => (pc' = "standardize" /\ attempt' = attempt)
      /\ pc' = "standardize" => (pc = "warmup" /\ hist'.prev = "warmup")
      /\ hist'.standardizes # hist.standardizes =>
            /\ pc = "standardize" /\ hist.prev = "warmup"
            /\ hist.standardizes = 0 /\ hist'.standardizes = 1
            /\ pc' \in {"loop", "done"}
      /\ (pc = "standardize" /\ pc' = "loop") =>
            /\ attempt' = 0 /\ hist'.polls = 0 /\ hist'.sleeps = 0 ]_vars

C28_Witness ==
  /\ pc = "loop" /\ hist.prev = "standardize" /\ hist.standardizes = 1
  /\ attempt = 0 /\ hist.sleeps = 0 /\ schemaId

\* C29 (as claimed): when archive_file raises, archive_folder and input_folder
\* are as they were before the call.
C29_FailedArchiveChangesNothing ==
  [][(pc = "archive" /\ hist'.prev = "archive_raised") =>
       archive' = archive /\ input' = input]_vars

\* C30: success is reported only by an archive_file call that returned, in
\* the attempt whose save returned; at that moment the last row of the store
\* is the record, the file is in archive_folder and not in input_folder; a
\* save or archive call that raises reports no success.
C30_SuccessMeansSavedAndArchived ==
  [][ /\ (pc = "archive" /\ hist'.prev = "archive_ok") =>
            /\ hist.prev = "save_ok" /\ hist.savedNow
            /\ hist.lastSave \in {"ok", "fallback"}
            /\ attempt' = attempt
            /\ LastRowIs(store', rec)
            /\ archive' = "new" /\ input' = "none"
            /\ "success" \in msgs'
      /\ ("success" \in msgs' /\ "success" \notin msgs) =>
            (pc = "archive" /\ hist'.prev = "archive_ok")
      /\ hist'.prev \in {"save_raised", "archive_raised"} =>
            ("success" \in msgs' <=> "success" \in msgs) ]_vars

C30_Witness ==
  /\ hist.prev = "archive_ok" /\ pc = "download" /\ "success" \in msgs
  /\ hist.lastSave = "fallback" /\ LastRowIs(store, rec)
  /\ archive = "new" /\ input = "none" /\ attempt = 2

\* C27 (as claimed): a standardize_document call made with the API credential
\* absent sends no request and raises the configuration error.
C27_StandardizeNeedsKey ==
  \A i \in DOMAIN hist.calls :
    (hist.calls[i].op = "standardize" /\ ~apiKey) =>
       /\ ~hist.calls[i].sent
       /\ hist.calls[i].result = "ValueError"

\* C26: provided every call returns, every run reaches a terminal outcome
\* (success, failed or timed out) and stays there; a finished run, timed out
\* or not, makes no further wait or poll.
C26_Terminates ==
  /\ <>[](pc = "done" /\ outcome \in Failed \cup {"success", "timed_out"})
  /\ [](outcome # "none" => pc = "done")
  /\ [][(pc = "done" \/ outcome = "timed_out") =>
          hist'.polls = hist.polls /\ hist'.sleeps = hist.sleeps]_vars

C26_Witness ==
  /\ pc = "done" /\ outcome = "timed_out" /\ hist.prev = "after"
  /\ attempt = max_attempts /\ hist.sleeps = max_attempts /\ ~extracted

\* C31: a poll reply leads to the save only when it is a non-empty parsed
\* JSON value with the key 'data'; a parsed reply that is empty or lacks
\* 'data', and the None of a binary body, are "no data yet": the run is back
\* at the loop test with the attempt counter one higher, nothing reported,
\* and the store, the archive and the staged file as they were.
C31_OnlyDataIsARecord ==
  [][pc = "retrieve" =>
       /\ (pc' = "save") <=> (hist'.lastReply = "record")
       /\ pc' = "save" => (attempt' = attempt /\ store' = store)
       /\ hist'.lastReply \in {"not_ready", "empty", "binary"} =>
            /\ pc' = "loop"
            /\ attempt' = attempt + 1
            /\ store' = store /\ archive' = archive /\ input' = input
            /\ msgs' = msgs /\ outcome' = outcome /\ extracted' = extracted
            /\ ~hist'.sawRecord = ~hist.sawRecord
       /\ hist'.lastReply # "record" =>
            /\ attempt' = attempt + 1
            /\ store' = store /\ archive' = archive ]_vars

C31_Witness ==
  /\ hist.prev = "poll" /\ hist.lastReply = "empty" /\ pc = "loop"
  /\ binarySaved /\ attempt = 3 /\ hist.polls = 3
  /\ ~hist.sawRecord /\ store = store0 /\ archive # "new"

====
